---- MODULE Spec2Model ----
(***************************************************************************)
(* Model of porcupine's main window controller (porcupine/editor.py) and   *)
(* of the Windows installer script (build-exe-installer.py).               *)
(*                                                                         *)
(* Strings that the code splits on '/' are sequences of tokens, '/' being  *)
(* the token "/"; a menu label is the (possibly empty) token sequence      *)
(* between two separators.  Tk menu indexes are 0-based as in Tk, so the   *)
(* entry with Tk index i of a menu is element i+1 of its entry sequence.   *)
(***************************************************************************)
EXTENDS Integers, Sequences, FiniteSets, TLC

VARIABLES
    menus,          \* menu object id -> sequence of its entries; 0 is self.menubar
    submenus,       \* self._submenus: <<parentmenu, label>> -> submenu id
    hook,           \* self.tabmanager.tab_changed_hook: connected callbacks, in order
    bindings,       \* Tk binding table of the Editor frame: sequence -> bind_callback closure
    actions,        \* history: one record per add_action call, in call order
    tabs,           \* self.tabmanager.tabs
    current_tab,    \* self.tabmanager.current_tab: position in tabs, 0 for None
    running,        \* FALSE once do_quit() has destroyed the editor
    lastKey,        \* history: the key event delivered by the last step, if any
    lastOpen,       \* history: the open_files() run of the last step, if any
    lastMenu,       \* history: the get_menu() call of the last step, if any
    ipc,            \* installer: position in main()
    dirs,           \* installer: directories that exist in the working directory
    files,          \* installer: files that exist in the working directory
    exc,            \* installer: the exception being raised, None if there is none
    frozen,         \* installer: the list bound to 'frozen'
    ran             \* installer: history of the steps taken and how each went

vars == <<menus, submenus, hook, bindings, actions, tabs, current_tab, running,
          lastKey, lastOpen, lastMenu, ipc, dirs, files, exc, frozen, ran>>

edvars == <<menus, submenus, hook, bindings, actions, tabs, current_tab, running,
            lastKey, lastOpen, lastMenu>>

insvars == <<ipc, dirs, files, exc, frozen, ran>>

\* ---------------------------------------------------------------- bounds
MaxPathLen == 1      \* longest label_path / menupath a caller passes, in tokens
MaxUserActions == 1  \* add_action calls made after construction
MaxMenus == 7        \* submenus in self._submenus (5 exist after construction)
MaxTabs == 2         \* tabs open at the same time
MaxFiles == 2        \* paths the open-files dialog returns at once
MaxFrozen == 2       \* lines 'pip freeze' prints

\* ---------------------------------------------------------------- values
None == "None"
NoIndex == 0 - 1            \* what menu.index('end') returns as None
menubar == 0
NoMenuPath == <<None>>      \* menupath=None

\* str.split('/')
RECURSIVE Split(_)
Split(s) ==
    IF \A i \in 1..Len(s) : s[i] # "/"
    THEN <<s>>
    ELSE LET i == CHOOSE k \in 1..Len(s) :
                      s[k] = "/" /\ \A j \in 1..(k-1) : s[j] # "/"
         IN  <<SubSeq(s, 1, i-1)>> \o Split(SubSeq(s, i+1, Len(s)))

\* str.rsplit('/', 1)
RSplit1(s) ==
    IF \A i \in 1..Len(s) : s[i] # "/"
    THEN <<s>>
    ELSE LET i == CHOOSE k \in 1..Len(s) :
                      s[k] = "/" /\ \A j \in (k+1)..Len(s) : s[j] # "/"
         IN  <<SubSeq(s, 1, i-1), SubSeq(s, i+1, Len(s))>>

\* menu.index('end'): None for a menu without entries
IndexEnd(entries) == IF Len(entries) = 0 THEN NoIndex ELSE Len(entries) - 1

\* menu.insert(index, ...): the new entry goes before the entry at index
InsertEntry(entries, index, entry) ==
    IF index >= Len(entries)
    THEN Append(entries, entry)
    ELSE SubSeq(entries, 1, index) \o <<entry>> \o SubSeq(entries, index+1, Len(entries))

\* menu.add(...): the new entry goes last
AddEntry(entries, entry) == Append(entries, entry)

\* tk.Menu(tearoff=False): a new menu object without entries
NewMenuId(ms) == Cardinality(DOMAIN ms)

CascadeEntry(label, submenu) ==
    [type |-> "cascade", label |-> label, menu |-> submenu, state |-> "normal"]

CommandEntry(label, callback) ==
    [type |-> "command", label |-> label, command |-> callback, state |-> "normal"]

SeparatorEntry == [type |-> "separator"]

RadioEntry(name) == [type |-> "radiobutton", label |-> name, state |-> "normal"]

\* Where get_menu() puts the cascade of a new submenu of current_menu
CascadeIndex(current_menu, entries) ==
    IF current_menu = menubar
    THEN IF IndexEnd(entries) = NoIndex THEN 0 ELSE IndexEnd(entries)
    ELSE Len(entries)

\* get_menu without line 102: the new submenu is not remembered
ForgetSubmenu(subs, key, submenu) == subs

\* self._submenus[(current_menu, label)] = submenu
RememberSubmenu(subs, key, submenu) ==
    [k \in DOMAIN subs \cup {key} |-> IF k = key THEN submenu ELSE subs[k]]

\* The loop of Editor.get_menu over label_path.split('/')
RECURSIVE GetMenuLoop(_, _, _, _)
GetMenuLoop(ms, subs, current_menu, labels) ==
    IF labels = <<>>
    THEN [menus |-> ms, submenus |-> subs, menu |-> current_menu]
    ELSE LET label == Head(labels)
             key == <<current_menu, label>>
         IN  IF key \in DOMAIN subs
             THEN GetMenuLoop(ms, subs, subs[key], Tail(labels))
             ELSE LET submenu == NewMenuId(ms)
                      index == CascadeIndex(current_menu, ms[current_menu])
                      ms1 == [m \in DOMAIN ms \cup {submenu} |->
                                 IF m = submenu THEN <<>>
                                 ELSE IF m = current_menu
                                 THEN InsertEntry(ms[m], index, CascadeEntry(label, submenu))
                                 ELSE ms[m]]
                      subs1 == RememberSubmenu(subs, key, submenu)
                  IN  GetMenuLoop(ms1, subs1, submenu, Tail(labels))

\* Editor.get_menu(label_path)
get_menu(ms, subs, label_path) == GetMenuLoop(ms, subs, menubar, Split(label_path))

\* ---------------------------------------------------------------- tab types
\* The classes a tab (or None) can be an instance of: tabs.FileTab is a
\* subclass of tabs.Tab, and None is the only instance of type(None).
ClassesOf(cls) ==
    IF cls = "FileTab" THEN {"FileTab", "Tab"} ELSE {cls}

\* isinstance(obj, tabtypes) for an object of class cls and a tuple of classes
IsInstance(cls, tabtypes) == ClassesOf(cls) \cap tabtypes # {}

\* add_action's conversion of its tabtypes argument: None becomes type(None)
ConvertTabTypes(tabtypes) ==
    {IF c = None THEN "NoneType" ELSE c : c \in tabtypes}

DefaultTabTypes == {None, "Tab"}

\* menu.entryconfig(index, state=...)
EntryConfigState(ms, menu, index, state) ==
    [ms EXCEPT ![menu][index + 1].state = state]

\* The closure tab_changed(new_tab) that add_action connects to the hook;
\* h holds the closure's free variables menu, menuindex and tabtypes.
tab_changed(ms, h, new_cls) ==
    IF IsInstance(new_cls, h.tabtypes)
    THEN EntryConfigState(ms, h.menu, h.menuindex, "normal")
    ELSE EntryConfigState(ms, h.menu, h.menuindex, "disabled")

\* Running tabmanager.tab_changed_hook with the new current tab: every
\* connected callback is called, in connection order.
RECURSIVE RunHook(_, _, _)
RunHook(ms, callbacks, new_cls) ==
    IF callbacks = <<>> THEN ms
    ELSE LET h == Head(callbacks)
             ms1 == IF h.fn = "tab_changed" THEN tab_changed(ms, h, new_cls) ELSE ms
         IN  RunHook(ms1, Tail(callbacks), new_cls)

\* add_action taking menu.index('end') before it adds the command
MenuIndexBeforeCommand(entries) == IF Len(entries) < 2 THEN 0 ELSE Len(entries) - 2

\* The index add_action remembers for the command it has just added
MenuIndexOfNewCommand(entries) == IndexEnd(entries)

\* self.bind(binding, bind_callback): a binding of the same sequence is replaced
Bind(bs, binding, closure) ==
    [k \in DOMAIN bs \cup {binding} |-> IF k = binding THEN closure ELSE bs[k]]

\* Editor.add_action(callback, menupath, accelerator, binding, tabtypes) on the
\* editor state ed, cur_cls being the class of tabmanager.current_tab.
\* A menupath without '/' makes the unpacking of rsplit raise ValueError
\* before anything is changed.
AddActionRaises(menupath) ==
    menupath # NoMenuPath /\ Len(RSplit1(menupath)) # 2

add_action(ed, callback, menupath, binding, tabtypes, cur_cls) ==
    LET tt == ConvertTabTypes(tabtypes)
        withmenu == menupath # NoMenuPath
        parts == RSplit1(menupath)
        gm == get_menu(ed.menus, ed.submenus, parts[1])
        menu == gm.menu
        ms1 == [gm.menus EXCEPT ![menu] = AddEntry(@, CommandEntry(parts[2], callback))]
        menuindex == MenuIndexOfNewCommand(ms1[menu])
        closure == [fn |-> "tab_changed", menu |-> menu, menuindex |-> menuindex,
                    tabtypes |-> tt, callback |-> callback]
        ms2 == tab_changed(ms1, closure, cur_cls)
        ed1 == IF withmenu
               THEN [ed EXCEPT !.menus = ms2, !.submenus = gm.submenus,
                               !.hook = Append(@, closure)]
               ELSE ed
        ed2 == IF binding # None
               THEN [ed1 EXCEPT !.bindings =
                        Bind(@, binding, [callback |-> callback, tabtypes |-> tt])]
               ELSE ed1
    IN  IF AddActionRaises(menupath) THEN ed
        ELSE [ed2 EXCEPT !.actions = Append(@,
                 [callback |-> callback, menupath |-> menupath, binding |-> binding,
                  tabtypes |-> tt,
                  menu |-> IF withmenu THEN menu ELSE NoIndex,
                  menuindex |-> IF withmenu THEN menuindex ELSE NoIndex])]

\* self.get_menu(label_path).add_separator() and .add_radiobutton(...)
add_to_menu(ed, label_path, entry) ==
    LET gm == get_menu(ed.menus, ed.submenus, label_path)
    IN  [ed EXCEPT !.menus = [gm.menus EXCEPT ![gm.menu] = AddEntry(@, entry)],
                   !.submenus = gm.submenus]

\* ---------------------------------------------------------------- construction
\* The names pygments.styles.get_all_styles() yields, sorted (two of them)
StyleNames == <<"default", "monokai">>

Act(callback, menupath, binding, tabtypes) ==
    [op |-> "add", callback |-> callback, menupath |-> menupath,
     binding |-> binding, tabtypes |-> tabtypes]

Sep(label_path) == [op |-> "separator", label_path |-> label_path]

Get(label_path) == [op |-> "get_menu", label_path |-> label_path]

\* The calls Editor._setup_menus makes, in order: those for the File menu,
SetupCallsFile ==
    << Act("new_file", <<"File", "/", "New File">>, "<Control-n>", DefaultTabTypes),
       Act("open_files", <<"File", "/", "Open">>, "<Control-o>", DefaultTabTypes),
       Act("save", <<"File", "/", "Save">>, "<Control-s>", {"FileTab"}),
       Act("save_as", <<"File", "/", "Save As...">>, "<Control-S>", {"FileTab"}),
       Sep(<<"File">>),
       Act("_close_tab_or_quit", <<"File", "/", "Close">>, "<Control-w>",
           DefaultTabTypes) >>

\* ... for the Edit menu,
SetupCallsEdit ==
    << Act("undo", <<"Edit", "/", "Undo">>, "<Control-z>", {"FileTab"}),
       Act("redo", <<"Edit", "/", "Redo">>, "<Control-y>", {"FileTab"}),
       Act("cut", <<"Edit", "/", "Cut">>, "<Control-x>", {"FileTab"}),
       Act("copy", <<"Edit", "/", "Copy">>, "<Control-c>", {"FileTab"}),
       Act("paste", <<"Edit", "/", "Paste">>, "<Control-v>", {"FileTab"}),
       Act("select_all", <<"Edit", "/", "Select All">>, "<Control-a>", {"FileTab"}),
       Sep(<<"Edit">>),
       Act("find", <<"Edit", "/", "Find and Replace">>, "<Control-f>", {"FileTab"}),
       Sep(<<"Edit">>),
       Act("settingdialog.show", <<"Edit", "/", "Porcupine Settings...">>, None,
           DefaultTabTypes) >>

\* ... for the Color Themes and View menus,
SetupCallsView ==
    << Get(<<"Color Themes">>),
       Act("on_wheel_up", <<"View", "/", "Bigger Font">>, None, {"FileTab"}),
       Act("on_wheel_down", <<"View", "/", "Smaller Font">>, None, {"FileTab"}),
       Act("on_wheel_reset", <<"View", "/", "Reset Font Size">>, None, {"FileTab"}),
       Sep(<<"View">>) >>

\* ... for the Help menu,
SetupCallsHelp ==
    << Act("link1", <<"Help", "/", "Free help chat">>, None, DefaultTabTypes),
       Act("link2", <<"Help", "/", "My Python tutorial">>, None, DefaultTabTypes),
       Act("link3", <<"Help", "/", "Official Python documentation">>, None,
           DefaultTabTypes),
       Sep(<<"Help">>),
       Act("link4", <<"Help", "/", "Porcupine Wiki">>, None, DefaultTabTypes),
       Act("link5", <<"Help", "/", "Report a problem or request a feature">>, None,
           DefaultTabTypes),
       Act("link6", <<"Help", "/", "Read Porcupine's code">>, None,
           DefaultTabTypes) >>

\* ... and the radiobuttons of the colour themes.
SetupCallsThemes ==
    [i \in 1..Len(StyleNames) |->
        [op |-> "radiobutton", label_path |-> <<"Color Themes">>,
         name |-> StyleNames[i]]]

\* One call of _setup_menus, made while there is no tab
SetupCall(ed, c) ==
    IF c.op = "add"
    THEN add_action(ed, c.callback, c.menupath, c.binding, c.tabtypes, "NoneType")
    ELSE IF c.op = "separator" THEN add_to_menu(ed, c.label_path, SeparatorEntry)
    ELSE IF c.op = "radiobutton" THEN add_to_menu(ed, c.label_path, RadioEntry(c.name))
    ELSE LET gm == get_menu(ed.menus, ed.submenus, c.label_path)
         IN  [ed EXCEPT !.menus = gm.menus, !.submenus = gm.submenus]

RECURSIVE SetupMenus(_, _)
SetupMenus(ed, calls) ==
    IF calls = <<>> THEN ed
    ELSE CHOOSE r \in {SetupMenus(ed1, Tail(calls)) :
                          ed1 \in {SetupCall(ed, Head(calls))}} : TRUE

\* The (binding, callback) pairs of tabmanager.bindings that __init__ adds
\* as actions
TabManagerBindings == <<>>

RECURSIVE AddBindings(_, _)
AddBindings(ed, pairs) ==
    IF pairs = <<>> THEN ed
    ELSE AddBindings(add_action(ed, Head(pairs)[2], NoMenuPath, Head(pairs)[1],
                                DefaultTabTypes, "NoneType"),
                     Tail(pairs))

\* Editor.__init__ up to get_menu("Help"): an empty menu bar, then Help
EditorEmpty ==
    [menus |-> (menubar :> <<>>), submenus |-> <<>>, hook |-> <<>>,
     bindings |-> <<>>, actions |-> <<>>]

AfterHelp == SetupCall(EditorEmpty, Get(<<"Help">>))

\* Editor._setup_menus, menu by menu
AfterSetupFile == SetupMenus(AfterHelp, SetupCallsFile)

AfterSetupEdit == SetupMenus(AfterSetupFile, SetupCallsEdit)

AfterSetupView == SetupMenus(AfterSetupEdit, SetupCallsView)

AfterSetupHelp == SetupMenus(AfterSetupView, SetupCallsHelp)

AfterSetupMenus == SetupMenus(AfterSetupHelp, SetupCallsThemes)

\* The rest of Editor.__init__: the editor's own _tab_changed is connected to
\* the hook and the tab manager's bindings are added
EditorInit ==
    AddBindings([AfterSetupMenus EXCEPT !.hook = Append(@, [fn |-> "_tab_changed"])],
                TabManagerBindings)

\* ---------------------------------------------------------------- tab manager
\* The class of tabmanager.current_tab (type(None) when there is no tab)
CurCls(ts, cur) == IF cur = 0 THEN "NoneType" ELSE ts[cur].cls

FileTab(path) == [cls |-> "FileTab", path |-> path]

PlainTab == [cls |-> "Tab", path |-> None]

\* Setting tabmanager.current_tab: the tab_changed_hook runs with the new tab.
\* t is the record of the tab-related state: tabs, current_tab, menus.
SetCurrent(t, hk, cur) ==
    [t EXCEPT !.current_tab = cur,
              !.menus = RunHook(t.menus, hk, CurCls(t.tabs, cur))]

\* tabmanager.add_tab(tab, make_current): the tab is put last; it becomes the
\* current tab if asked for or if it is the only tab.
add_tab(t, hk, tab, make_current) ==
    LET t1 == [t EXCEPT !.tabs = Append(@, tab)]
    IN  IF make_current \/ t.tabs = <<>>
        THEN SetCurrent(t1, hk, Len(t1.tabs))
        ELSE t1

RemoveAt(seq, i) == SubSeq(seq, 1, i-1) \o SubSeq(seq, i+1, Len(seq))

\* tab.close() of the current tab: the tab is removed and a neighbour, or None
\* when no tab is left, becomes the current tab.
close_current(t, hk) ==
    LET ts1 == RemoveAt(t.tabs, t.current_tab)
        cur == IF ts1 = <<>> THEN 0
               ELSE IF t.current_tab > Len(ts1) THEN Len(ts1) ELSE t.current_tab
    IN  SetCurrent([t EXCEPT !.tabs = ts1], hk, cur)

\* ---------------------------------------------------------------- files
\* What open(path, encoding=...) followed by f.read() does for the files the
\* dialog can return: "ok", or the exception it raises.
OpenOutcome(path) ==
    CASE path = "missing.py" -> "OSError"
      [] path = "binary.dat" -> "UnicodeError"
      [] OTHER -> "ok"

DialogFiles == {"a.py", "b.py", "missing.py", "binary.dat"}

\* What dialogs.open_files() can return: lists of distinct paths
DialogResults ==
    {ps \in UNION {[1..n -> DialogFiles] : n \in 0..MaxFiles} :
        \A i, j \in 1..Len(ps) : i # j => ps[i] # ps[j]}

\* open_files with 'break' in place of 'continue': the first failure ends it
RECURSIVE OpenFilesLoopBreaks(_, _, _, _)
OpenFilesLoopBreaks(t, hk, paths, log) ==
    IF paths = <<>> THEN [t |-> t, log |-> log]
    ELSE LET path == Head(paths)
             outcome == OpenOutcome(path)
         IN  IF outcome \in {"OSError", "UnicodeError"}
             THEN [t |-> t,
                   log |-> Append(log, [path |-> path, did |-> "errordialog",
                                        title |-> outcome, tabs |-> t.tabs,
                                        current_tab |-> t.current_tab])]
             ELSE LET t1 == add_tab(t, hk, FileTab(path), TRUE)
                  IN  OpenFilesLoopBreaks(t1, hk, Tail(paths),
                          Append(log, [path |-> path, did |-> "add_tab",
                                       title |-> None,
                                       tabs |-> t1.tabs,
                                       current_tab |-> t1.current_tab]))

\* The loop of Editor.open_files over the paths of the dialog; log gets one
\* record per path: what was done for it and the tab state afterwards.
RECURSIVE OpenFilesLoop(_, _, _, _)
OpenFilesLoop(t, hk, paths, log) ==
    IF paths = <<>> THEN [t |-> t, log |-> log]
    ELSE LET path == Head(paths)
             outcome == OpenOutcome(path)
         IN  IF outcome \in {"OSError", "UnicodeError"}
             THEN OpenFilesLoop(t, hk, Tail(paths),
                      Append(log, [path |-> path, did |-> "errordialog",
                                   title |-> outcome,
                                   tabs |-> t.tabs, current_tab |-> t.current_tab]))
             ELSE LET t1 == add_tab(t, hk, FileTab(path), TRUE)
                  IN  OpenFilesLoop(t1, hk, Tail(paths),
                          Append(log, [path |-> path, did |-> "add_tab",
                                       title |-> None,
                                       tabs |-> t1.tabs,
                                       current_tab |-> t1.current_tab]))

\* Editor.open_files()
open_files(t, hk, paths) == OpenFilesLoop(t, hk, paths, <<>>)

\* Editor.new_file()
new_file(t, hk) == add_tab(t, hk, FileTab(None), TRUE)

\* ---------------------------------------------------------------- editor steps
Ed == [menus |-> menus, submenus |-> submenus, hook |-> hook,
       bindings |-> bindings, actions |-> actions]

T == [tabs |-> tabs, current_tab |-> current_tab, menus |-> menus]

NoKey == [delivered |-> FALSE]
NoOpen == [ran |-> FALSE]
NoMenu == [called |-> FALSE]

Tokens == {"File", "/"}

\* The strings callers pass as label_path or menupath
PathStrings == UNION {[1..n -> Tokens] : n \in 0..MaxPathLen}

\* The menupaths plugins pass to add_action: an item for a menu that exists
\* after construction and an item for a menu that does not
MenuPaths == {<<"File", "/", "Item">>, <<"/", "Item">>}

UserKeys == {"<Control-n>", "<F5>"}

TabTypeChoices == {{"FileTab"}, {None}}

\* The callbacks of the actions that Editor.__init__ adds
SetupCallbacks ==
    {c.callback : c \in {d \in {SetupCallsFile[i] : i \in DOMAIN SetupCallsFile}
                               \cup {SetupCallsEdit[i] : i \in DOMAIN SetupCallsEdit}
                               \cup {SetupCallsView[i] : i \in DOMAIN SetupCallsView}
                               \cup {SetupCallsHelp[i] : i \in DOMAIN SetupCallsHelp} :
                             d.op = "add"}}

\* The actions added after construction, by plugins
UserActions == {n \in 1..Len(actions) : actions[n].callback \notin SetupCallbacks}

UserCallback(n) == "callback" \o ToString(n)

\* A plugin calls editor.get_menu(label_path)
GetMenu(label_path) ==
    /\ running
    /\ LET gm == get_menu(menus, submenus, label_path)
       IN  /\ Cardinality(DOMAIN gm.submenus) <= MaxMenus
           /\ menus' = gm.menus
           /\ submenus' = gm.submenus
           /\ lastMenu' = [called |-> TRUE, label_path |-> label_path,
                           menu |-> gm.menu,
                           submenus_before |-> submenus,
                           menus_before |-> menus]
    /\ lastKey' = NoKey
    /\ lastOpen' = NoOpen
    /\ UNCHANGED <<hook, bindings, actions, tabs, current_tab, running, insvars>>

\* A plugin calls editor.add_action(callback, menupath, binding=..., tabtypes=...)
AddAction(menupath, binding, tabtypes) ==
    /\ running
    /\ Cardinality(UserActions) < MaxUserActions
    /\ ~AddActionRaises(menupath)
    /\ LET callback == UserCallback(Cardinality(UserActions) + 1)
           ed1 == add_action(Ed, callback, menupath, binding, tabtypes,
                             CurCls(tabs, current_tab))
       IN  /\ Cardinality(DOMAIN ed1.submenus) <= MaxMenus
           /\ menus' = ed1.menus
           /\ submenus' = ed1.submenus
           /\ hook' = ed1.hook
           /\ bindings' = ed1.bindings
           /\ actions' = ed1.actions
    /\ lastKey' = NoKey
    /\ lastOpen' = NoOpen
    /\ lastMenu' = NoMenu
    /\ UNCHANGED <<tabs, current_tab, running, insvars>>

\* add_action(callback, menupath, tabtypes=...): a menu item only
AddMenuAction(menupath, tabtypes) == AddAction(menupath, None, tabtypes)

\* add_action(callback, binding=..., tabtypes=...): a key binding only
AddKeyAction(binding, tabtypes) == AddAction(NoMenuPath, binding, tabtypes)

SetT(t) ==
    /\ tabs' = t.tabs
    /\ current_tab' = t.current_tab
    /\ menus' = t.menus

\* Editor.new_file() run as a callback
NewFileEffect ==
    /\ Len(tabs) < MaxTabs
    /\ SetT(new_file(T, hook))
    /\ lastOpen' = NoOpen
    /\ UNCHANGED running

\* Editor.open_files() run as a callback, the dialog returning paths
OpenFilesEffect(paths) ==
    LET r == open_files(T, hook, paths)
    IN  /\ Len(r.t.tabs) <= MaxTabs
        /\ SetT(r.t)
        /\ lastOpen' = [ran |-> TRUE, paths |-> paths, tabs_before |-> tabs,
                        current_before |-> current_tab, log |-> r.log]
        /\ UNCHANGED running

\* Editor.do_quit(): nothing happens unless every tab can be closed; destroying
\* the editor destroys the tab manager, which closes all tabs
DoQuitEffect(all_closable) ==
    IF tabs # <<>> /\ ~all_closable
    THEN UNCHANGED <<tabs, current_tab, menus, running>>
    ELSE /\ running' = FALSE
         /\ tabs' = <<>>
         /\ current_tab' = 0
         /\ UNCHANGED menus

\* Editor._close_tab_or_quit() run as a callback; closable is what
\* can_be_closed() answers
CloseTabOrQuitEffect(closable) ==
    /\ IF current_tab = 0
       THEN DoQuitEffect(closable)
       ELSE IF closable
       THEN SetT(close_current(T, hook)) /\ UNCHANGED running
       ELSE UNCHANGED <<tabs, current_tab, menus, running>>
    /\ lastOpen' = NoOpen

NewFile ==
    /\ running
    /\ NewFileEffect
    /\ lastKey' = NoKey
    /\ lastMenu' = NoMenu
    /\ UNCHANGED <<submenus, hook, bindings, actions, insvars>>

OpenFiles(paths) ==
    /\ running
    /\ OpenFilesEffect(paths)
    /\ lastKey' = NoKey
    /\ lastMenu' = NoMenu
    /\ UNCHANGED <<submenus, hook, bindings, actions, insvars>>

CloseTabOrQuit(closable) ==
    /\ running
    /\ CloseTabOrQuitEffect(closable)
    /\ lastKey' = NoKey
    /\ lastMenu' = NoMenu
    /\ UNCHANGED <<submenus, hook, bindings, actions, insvars>>

\* A plugin adds a tab that is not a FileTab: tabmanager.add_tab(tab)
AddPlainTab ==
    /\ running
    /\ Len(tabs) < MaxTabs
    /\ SetT(add_tab(T, hook, PlainTab, TRUE))
    /\ lastKey' = NoKey
    /\ lastOpen' = NoOpen
    /\ lastMenu' = NoMenu
    /\ UNCHANGED <<submenus, hook, bindings, actions, running, insvars>>

\* The user selects another tab
SelectTab(i) ==
    /\ running
    /\ i \in 1..Len(tabs)
    /\ i # current_tab
    /\ SetT(SetCurrent(T, hook, i))
    /\ lastKey' = NoKey
    /\ lastOpen' = NoOpen
    /\ lastMenu' = NoMenu
    /\ UNCHANGED <<submenus, hook, bindings, actions, running, insvars>>

\* The closure bind_callback(event) that add_action binds: what it calls and
\* what it returns when the current tab has class cls
bind_callback(closure, cls) ==
    IF IsInstance(cls, closure.tabtypes)
    THEN [called |-> <<closure.callback>>, result |-> "break"]
    ELSE [called |-> <<>>, result |-> None]

\* What running a callback does to the tabs; callbacks other than the editor's
\* own three act on things outside the model
RunCallback(callback) ==
    IF callback = "new_file" THEN NewFileEffect
    ELSE IF callback = "open_files" THEN \E paths \in DialogResults : OpenFilesEffect(paths)
    ELSE IF callback = "_close_tab_or_quit" THEN \E c \in BOOLEAN : CloseTabOrQuitEffect(c)
    ELSE /\ lastOpen' = NoOpen
         /\ UNCHANGED <<tabs, current_tab, menus, running>>

\* Tk delivers the key event of a bound sequence to the Editor frame
KeyEvent(key) ==
    /\ running
    /\ key \in DOMAIN bindings
    /\ LET cls == CurCls(tabs, current_tab)
           r == bind_callback(bindings[key], cls)
       IN  /\ lastKey' = [delivered |-> TRUE, key |-> key, cls |-> cls,
                          called |-> r.called, result |-> r.result]
           /\ IF r.called # <<>>
              THEN RunCallback(r.called[1])
              ELSE /\ lastOpen' = NoOpen
                   /\ UNCHANGED <<tabs, current_tab, menus, running>>
    /\ lastMenu' = NoMenu
    /\ UNCHANGED <<submenus, hook, bindings, actions, insvars>>

InstallerOff ==
    /\ ipc = "off"
    /\ dirs = {}
    /\ files = {}
    /\ exc = None
    /\ frozen = <<>>
    /\ ran = <<>>

\* The editor right after Editor(...) has been constructed
Init ==
    /\ \E ed \in {EditorInit} :
          /\ menus = ed.menus
          /\ submenus = ed.submenus
          /\ hook = ed.hook
          /\ bindings = ed.bindings
          /\ actions = ed.actions
    /\ tabs = <<>>
    /\ current_tab = 0
    /\ running = TRUE
    /\ lastKey = NoKey
    /\ lastOpen = NoOpen
    /\ lastMenu = NoMenu
    /\ InstallerOff

\* ---------------------------------------------------------------- installer
\* build-exe-installer.py, run on Windows in a working directory in which
\* temp_env, temp_venv and an older pynsist.cfg may or may not exist already.
\* External commands and the reading of the metadata succeed or fail as the
\* environment decides; ran records each step and whether it succeeded.
Requirements == {<<"Pygments", "2.2.0">>, <<"Porcupine", "0.0.1">>,
                 <<"porcupine", "0.0.1">>}

\* What pip freeze can print: lists of distinct requirement lines
FreezeOutputs ==
    {out \in UNION {[1..n -> Requirements] : n \in 0..MaxFrozen} :
        \A i, j \in 1..Len(out) : i # j => out[i] # out[j]}

\* str.lower() of a package name
Lower(name) == IF name = "Porcupine" THEN "porcupine"
               ELSE IF name = "Pygments" THEN "pygments" ELSE name

\* requirement.lower().startswith('porcupine==')
IsPorcupine(requirement) == Lower(requirement[1]) = "porcupine"

\* The list get_frozen_requirements_in_a_crazy_way returns
WithoutPorcupine(lines) == SelectSeq(lines, LAMBDA r : ~IsPorcupine(r))

Step(name, ok) == [step |-> name, ok |-> ok]

\* create_pynsist_cfg: find_metadata()['version'] for the Application section
FindMetadata(ok) ==
    /\ ipc = "find_metadata"
    /\ ran' = Append(ran, Step("find_metadata", ok))
    /\ IF ok
       THEN ipc' = "venv" /\ UNCHANGED exc
       ELSE ipc' = "raised" /\ exc' = "AssertionError"
    /\ UNCHANGED <<dirs, files, frozen>>
    /\ UNCHANGED edvars

\* subprocess.check_call([sys.executable, '-m', 'venv', 'temp_env']), before
\* the try statement
CreateVenv(ok) ==
    /\ ipc = "venv"
    /\ ran' = Append(ran, Step("venv", ok))
    /\ IF ok
       THEN ipc' = "pip_install" /\ dirs' = dirs \cup {"temp_env"} /\ UNCHANGED exc
       ELSE ipc' = "raised" /\ exc' = "CalledProcessError" /\ UNCHANGED dirs
    /\ UNCHANGED <<files, frozen>>
    /\ UNCHANGED edvars

\* pip install -r requirements.txt, inside the try statement
PipInstall(ok) ==
    /\ ipc = "pip_install"
    /\ ran' = Append(ran, Step("pip install", ok))
    /\ IF ok
       THEN ipc' = "pip_freeze" /\ UNCHANGED exc
       ELSE ipc' = "finally" /\ exc' = "CalledProcessError"
    /\ UNCHANGED <<dirs, files, frozen>>
    /\ UNCHANGED edvars

\* frozen = check_output(pip freeze).decode('utf-8').strip().splitlines()
PipFreeze(ok, out) ==
    /\ ipc = "pip_freeze"
    /\ ran' = Append(ran, Step("pip freeze", ok))
    /\ IF ok
       THEN frozen' = out /\ UNCHANGED exc
       ELSE exc' = "CalledProcessError" /\ UNCHANGED frozen
    /\ ipc' = "finally"
    /\ UNCHANGED <<dirs, files>>
    /\ UNCHANGED edvars

\* The directory the finally clause removes
RemovedDir == "temp_venv"

\* finally: shutil.rmtree('temp_venv'); a directory that does not exist makes
\* rmtree raise FileNotFoundError, which replaces any exception on its way
Finally ==
    /\ ipc = "finally"
    /\ IF RemovedDir \in dirs
       THEN /\ dirs' = dirs \ {RemovedDir}
            /\ ran' = Append(ran, Step("rmtree", TRUE))
            /\ ipc' = IF exc = None THEN "write_cfg" ELSE "raised"
            /\ UNCHANGED exc
       ELSE /\ ran' = Append(ran, Step("rmtree", FALSE))
            /\ ipc' = "raised"
            /\ exc' = "FileNotFoundError"
            /\ UNCHANGED dirs
    /\ UNCHANGED <<files, frozen>>
    /\ UNCHANGED edvars

\* with open('pynsist.cfg', 'w') as file: parser.write(file)
WriteCfg ==
    /\ ipc = "write_cfg"
    /\ files' = [f \in DOMAIN files \cup {"pynsist.cfg"} |->
                    IF f = "pynsist.cfg"
                    THEN [pypi_wheels |-> WithoutPorcupine(frozen)]
                    ELSE files[f]]
    /\ ran' = Append(ran, Step("write pynsist.cfg", TRUE))
    /\ ipc' = "run_pynsist"
    /\ UNCHANGED <<dirs, exc, frozen>>
    /\ UNCHANGED edvars

\* run_pynsist: subprocess.check_call([sys.executable, '-m', 'nsist', 'pynsist.cfg'])
RunPynsist(ok) ==
    /\ ipc = "run_pynsist"
    /\ ran' = Append(ran, Step("nsist", ok))
    /\ IF ok
       THEN ipc' = "done" /\ UNCHANGED exc
       ELSE ipc' = "raised" /\ exc' = "CalledProcessError"
    /\ UNCHANGED <<dirs, files, frozen>>
    /\ UNCHANGED edvars

\* The script is started: main() is about to call create_pynsist_cfg()
InitInstaller ==
    /\ \E ed \in {EditorInit} :
          /\ menus = ed.menus
          /\ submenus = ed.submenus
          /\ hook = ed.hook
          /\ bindings = ed.bindings
          /\ actions = ed.actions
    /\ tabs = <<>>
    /\ current_tab = 0
    /\ running = FALSE
    /\ lastKey = NoKey
    /\ lastOpen = NoOpen
    /\ lastMenu = NoMenu
    /\ ipc = "find_metadata"
    /\ dirs \in SUBSET {"temp_env", "temp_venv"}
    /\ files \in {<<>>, [f \in {"pynsist.cfg"} |-> [pypi_wheels |-> <<>>]]}
    /\ exc = None
    /\ frozen = <<>>
    /\ ran = <<>>

NextInstaller ==
    \/ \E ok \in BOOLEAN : FindMetadata(ok)
    \/ \E ok \in BOOLEAN : CreateVenv(ok)
    \/ \E ok \in BOOLEAN : PipInstall(ok)
    \/ \E ok \in BOOLEAN, out \in FreezeOutputs : PipFreeze(ok, out)
    \/ Finally
    \/ WriteCfg
    \/ \E ok \in BOOLEAN : RunPynsist(ok)

SpecInstaller == InitInstaller /\ [][NextInstaller]_vars

\* The operations on tabs
NextTabs ==
    \/ NewFile
    \/ \E paths \in DialogResults : OpenFiles(paths)
    \/ \E c \in BOOLEAN : CloseTabOrQuit(c)
    \/ AddPlainTab
    \/ \E i \in 1..MaxTabs : SelectTab(i)

\* Menus and menu items, while file tabs are added, selected and closed
NextMenus ==
    \/ \E p \in PathStrings : GetMenu(p)
    \/ \E p \in MenuPaths, tt \in TabTypeChoices : AddMenuAction(p, tt)
    \/ NewFile
    \/ \E c \in BOOLEAN : CloseTabOrQuit(c)
    \/ \E i \in 1..MaxTabs : SelectTab(i)

\* Key bindings and key events, while the current tab changes
NextKeys ==
    \/ \E b \in UserKeys, tt \in TabTypeChoices : AddKeyAction(b, tt)
    \/ \E k \in DOMAIN bindings : KeyEvent(k)
    \/ NewFile
    \/ \E c \in BOOLEAN : CloseTabOrQuit(c)
    \/ AddPlainTab
    \/ \E i \in 1..MaxTabs : SelectTab(i)

Next ==
    \/ \E p \in PathStrings : GetMenu(p)
    \/ \E p \in MenuPaths \cup {NoMenuPath}, b \in UserKeys \cup {None},
          tt \in TabTypeChoices : AddAction(p, b, tt)
    \/ NewFile
    \/ \E paths \in DialogResults : OpenFiles(paths)
    \/ \E c \in BOOLEAN : CloseTabOrQuit(c)
    \/ AddPlainTab
    \/ \E i \in 1..MaxTabs : SelectTab(i)
    \/ \E k \in DOMAIN bindings : KeyEvent(k)

Spec == Init /\ [][Next]_vars

SpecTabs == Init /\ [][NextTabs]_vars

SpecMenus == Init /\ [][NextMenus]_vars

SpecKeys == Init /\ [][NextKeys]_vars

\* ---------------------------------------------------------------- properties
Succeeds(path) == OpenOutcome(path) = "ok"

\* The tabs and the current tab before the i-th path of the last open_files
\* run was handled
TabsBeforePath(i) == IF i = 1 THEN lastOpen.tabs_before ELSE lastOpen.log[i-1].tabs

CurrentBeforePath(i) ==
    IF i = 1 THEN lastOpen.current_before ELSE lastOpen.log[i-1].current_tab

\* C1: open_files handles every path of the dialog once and in order: a path
\* that is read gets one new tab, put last and made current; a path whose
\* reading raises OSError or UnicodeError gets one error dialog and no tab, and
\* leaves the tabs and the current tab as they were; the loop goes on after a
\* failure, so the tabs afterwards are the tabs before followed by one tab per
\* path read, in dialog order.
C1_OpenFilesAddsTabPerReadPath ==
    lastOpen.ran =>
        LET paths == lastOpen.paths
            log == lastOpen.log
            read == SelectSeq(paths, Succeeds)
        IN  /\ Len(log) = Len(paths)
            /\ \A i \in 1..Len(paths) :
                  /\ log[i].path = paths[i]
                  /\ IF Succeeds(paths[i])
                     THEN /\ log[i].did = "add_tab"
                          /\ log[i].tabs = Append(TabsBeforePath(i), FileTab(paths[i]))
                          /\ log[i].current_tab = Len(log[i].tabs)
                     ELSE /\ log[i].did = "errordialog"
                          /\ log[i].tabs = TabsBeforePath(i)
                          /\ log[i].current_tab = CurrentBeforePath(i)
            /\ tabs = lastOpen.tabs_before \o [i \in 1..Len(read) |-> FileTab(read[i])]
            /\ (read = <<>> => current_tab = lastOpen.current_before)
            /\ (read # <<>> => current_tab = Len(tabs))

\* C1 witness: with a tab open, the dialog returned a path that cannot be read
\* followed by one that can
C1_Witness ==
    /\ lastOpen.ran
    /\ lastOpen.tabs_before # <<>>
    /\ Len(lastOpen.paths) >= 2
    /\ ~Succeeds(lastOpen.paths[1])
    /\ Succeeds(lastOpen.paths[Len(lastOpen.paths)])

\* The places <<menu, Tk index>> of the command entries that run callback
EntriesOf(callback) ==
    UNION {{<<m, i - 1>> : i \in {j \in 1..Len(menus[m]) :
                                     /\ menus[m][j].type = "command"
                                     /\ menus[m][j].command = callback}} :
           m \in DOMAIN menus}

ExpectedState(tabtypes) ==
    IF IsInstance(CurCls(tabs, current_tab), tabtypes) THEN "normal" ELSE "disabled"

\* C2: the menu item of every action added with a menupath is 'normal' when the
\* current tab (None for no tab) is an instance of one of the action's tabtypes
\* and 'disabled' otherwise; the entries that are not menu items of actions
\* (cascades, radiobuttons) are never disabled.
C2_MenuItemStateFollowsCurrentTab ==
    /\ \A n \in 1..Len(actions) :
          actions[n].menupath # NoMenuPath =>
              /\ Cardinality(EntriesOf(actions[n].callback)) = 1
              /\ \A e \in EntriesOf(actions[n].callback) :
                    menus[e[1]][e[2] + 1].state = ExpectedState(actions[n].tabtypes)
    /\ \A m \in DOMAIN menus : \A i \in 1..Len(menus[m]) :
          menus[m][i].type \in {"cascade", "radiobutton"} =>
              menus[m][i].state = "normal"

\* C2 witness: an action added after construction has its item disabled while
\* the second of two tabs is current, and the last step was a get_menu call
\* that made a new submenu
C2_Witness ==
    /\ current_tab = 2
    /\ lastMenu.called
    /\ lastMenu.menu \notin DOMAIN lastMenu.menus_before
    /\ \E n \in UserActions :
          /\ actions[n].menupath # NoMenuPath
          /\ \E e \in EntriesOf(actions[n].callback) :
                menus[e[1]][e[2] + 1].state = "disabled"

\* How often callback occurs in a sequence of invoked callbacks
Count(called, callback) ==
    Cardinality({i \in 1..Len(called) : called[i] = callback})

\* C3: when the key event of an action's binding is delivered, the action's
\* callback is invoked exactly once and 'break' is returned if the current tab
\* is of a compatible type; otherwise the callback is not invoked and 'break'
\* is not returned.
C3_BindingRunsCallbackOfCompatibleTab ==
    lastKey.delivered =>
        \A n \in 1..Len(actions) :
            actions[n].binding = lastKey.key =>
                IF IsInstance(lastKey.cls, actions[n].tabtypes)
                THEN /\ Count(lastKey.called, actions[n].callback) = 1
                     /\ lastKey.result = "break"
                ELSE /\ Count(lastKey.called, actions[n].callback) = 0
                     /\ lastKey.result # "break"

Absent == 0 - 2

\* The submenu the labels lead to from menu m in the dictionary subs, Absent if
\* one of them is missing
RECURSIVE Lookup(_, _, _)
Lookup(subs, m, labels) ==
    IF labels = <<>> THEN m
    ELSE IF <<m, Head(labels)>> \in DOMAIN subs
    THEN Lookup(subs, subs[<<m, Head(labels)>>], Tail(labels))
    ELSE Absent

\* The submenu that exists for label_path, if any
Existing(subs, label_path) == Lookup(subs, menubar, Split(label_path))

\* The cascade entries of menu m that carry the label
Cascades(m, label) ==
    {i \in 1..Len(menus[m]) :
        menus[m][i].type = "cascade" /\ menus[m][i].label = label}

\* A get_menu call returns the submenu now recorded for its label_path, a
\* submenu of the menu bar; if the submenu existed before the call, it is the
\* one returned and no menu has got an entry.
GetMenuReturnsTheSubmenu ==
    lastMenu.called =>
        /\ lastMenu.menu = Existing(submenus, lastMenu.label_path)
        /\ lastMenu.menu # menubar
        /\ Existing(lastMenu.submenus_before, lastMenu.label_path) # Absent =>
              /\ lastMenu.menu = Existing(lastMenu.submenus_before, lastMenu.label_path)
              /\ menus = lastMenu.menus_before
              /\ submenus = lastMenu.submenus_before

\* Every recorded submenu has exactly one cascade entry in its parent, and no
\* menu has two cascade entries with the same label
OneCascadePerLabel ==
    /\ \A k \in DOMAIN submenus :
          /\ Cardinality(Cascades(k[1], k[2])) = 1
          /\ \A i \in Cascades(k[1], k[2]) : menus[k[1]][i].menu = submenus[k]
    /\ \A m \in DOMAIN menus : \A i \in 1..Len(menus[m]) :
          menus[m][i].type = "cascade" =>
              Cardinality(Cascades(m, menus[m][i].label)) = 1

\* A submenu that exists for a label_path stays the submenu for it
SubmenusStay ==
    \A p \in PathStrings :
        Existing(submenus, p) # Absent => Existing(submenus', p) = Existing(submenus, p)

\* C4: get_menu makes a submenu only if there is none yet: a call returns the
\* submenu that exists for its label_path and then adds no entry to any menu,
\* the submenu of a label_path never changes (so two calls with the same
\* label_path return the same menu), and every (parent menu, label) pair has
\* at most one cascade entry.
C4_GetMenuCreatesOnce ==
    /\ [](GetMenuReturnsTheSubmenu /\ OneCascadePerLabel)
    /\ [][SubmenusStay]_vars

\* The submenus that exist after construction
SetupSubmenus ==
    {Existing(submenus, <<label>>) :
        label \in {"Help", "File", "Edit", "Color Themes", "View"}}

\* C4 witness: a label_path of several labels, whose submenu was made after
\* construction, has been asked for again
C4_Witness ==
    /\ lastMenu.called
    /\ Existing(lastMenu.submenus_before, lastMenu.label_path) # Absent
    /\ Len(Split(lastMenu.label_path)) >= 2
    /\ lastMenu.menu \notin SetupSubmenus

InstallerFinished == ipc \in {"done", "raised"}

\* Every external command that was invoked succeeded, and the metadata was found
AllSucceeded ==
    \A i \in 1..Len(ran) :
        ran[i].step \in {"find_metadata", "venv", "pip install", "pip freeze", "nsist"}
            => ran[i].ok

StepsNamed(name) == {i \in 1..Len(ran) : ran[i].step = name}

\* C5: the packaging command is never invoked before pynsist.cfg has been
\* written, and a run of main() in which every external command succeeds ends
\* with pynsist.cfg written and the packaging command invoked exactly once.
C5_MainWritesCfgThenRunsPynsist ==
    /\ \A i \in StepsNamed("nsist") :
          \E j \in StepsNamed("write pynsist.cfg") : j < i
    /\ (InstallerFinished /\ AllSucceeded) =>
          /\ ipc = "done"
          /\ Cardinality(StepsNamed("write pynsist.cfg")) = 1
          /\ Cardinality(StepsNamed("nsist")) = 1

====
